---- MODULE Spec2Model ----
(***************************************************************************)
(* Speech segmentation of main.py: frame_generator slices a PCM buffer     *)
(* into fixed-length frames and vad_collector turns the per-frame oracle   *)
(* decisions into (start_time, end_time) segments, composed as in          *)
(* get_speech_segments: list(vad_collector(..., frame_generator(...))).    *)
(*                                                                         *)
(* Time is kept exactly, in ticks of 1/(2*sample_rate) second (the time of *)
(* one byte of 16-bit mono audio), so float(n)/sample_rate/2 is n ticks.   *)
(* Floating-point rounding of the timestamps is not modelled.              *)
(* A frame's bytes audio[a:b] are represented by the byte range <<a, b>>.  *)
(***************************************************************************)
EXTENDS Integers, Sequences, FiniteSets

\* ---- bounds of the model ------------------------------------------------
MaxAudioLen == 11
\* most loop passes explored; only a slicer that never advances reaches it
MaxYield == MaxAudioLen + 1

SampleRates == {250, 500}
FrameDurations == {1, 2, 3}
Paddings == {0, 2, 3, 6}
\* frame durations a caller must not pass: zero and negative
MalformedDurations == {-3, -1, 0}
\* most names in the folder
MaxFiles == 3

\* get_speech_segments: frame_generator(30, ...), vad_collector(.., 30, 300, ..)
\* on audio that extract_audio resampled with -ar 16000
VadFrameMs == 30
VadPaddingMs == 300
ExtractedRate == 16000

\* start_time, timestamp and duration of vad_collector before their first
\* assignment (unbound local names)
Unbound == -1

VARIABLES
    sample_rate,          \* argument of both functions
    frame_duration_ms,    \* argument of both functions
    padding_duration_ms,  \* argument of vad_collector
    audio_len,            \* len(audio)
    offset,               \* frame_generator local
    gen_timestamp,        \* frame_generator local `timestamp`
    frames,               \* log of the (frame, timestamp, duration) tuples yielded
    decisions,            \* log of the oracle's answers, one per frame
    ring_buffer,          \* vad_collector local deque
    triggered,            \* vad_collector local
    voiced_frames,        \* vad_collector local
    start_time,           \* vad_collector local
    timestamp,            \* vad_collector loop variable
    duration,             \* vad_collector loop variable
    segments,             \* the tuples vad_collector has yielded, in order
    pc,                   \* "running" inside the for loop, "done" after the generator
                          \* returned, "error" / "aborted" after an exception left it
    cmd,                  \* the ffmpeg invocation built by cut_video_with_ffmpeg
    files,                \* os.listdir(folder_path): TRUE for a name ending in ".mp4"
    next_file,            \* position of process_folder's loop in files
    results,              \* what process_folder did with each name so far
    wav_left              \* positions of the videos whose .wav is on disk

vars == <<sample_rate, frame_duration_ms, padding_duration_ms, audio_len, offset,
          gen_timestamp, frames, decisions, ring_buffer, triggered, voiced_frames,
          start_time, timestamp, duration, segments, pc,
          cmd, files, next_file, results, wav_left>>

\* the state of cut_video_with_ffmpeg and process_folder
folderVars == <<cmd, files, next_file, results, wav_left>>

\* the arguments and locals of frame_generator and vad_collector
runVars == <<sample_rate, frame_duration_ms, padding_duration_ms, audio_len, offset,
             gen_timestamp, frames, decisions, ring_buffer, triggered, voiced_frames,
             start_time, timestamp, duration, segments, pc>>

Min(a, b) == IF a < b THEN a ELSE b

Max(a, b) == IF a < b THEN b ELSE a

\* int(x / y) for a float quotient of integers x, y (y # 0): truncation
\* toward zero
TruncDiv(x, y) ==
    IF (x >= 0) = (y > 0)
    THEN (IF x >= 0 THEN x ELSE -x) \div (IF y > 0 THEN y ELSE -y)
    ELSE -((IF x >= 0 THEN x ELSE -x) \div (IF y > 0 THEN y ELSE -y))

\* ---- frame_generator ----------------------------------------------------

\* n = int(sample_rate * (frame_duration_ms / 1000.0) * 2), truncating
FrameBytes(sr, ms) == TruncDiv(sr * ms * 2, 1000)

\* duration = float(n) / sample_rate / 2 seconds, converted to ticks: there
\* are 2*sample_rate ticks in a second
FrameDuration(nbytes, sr) == (nbytes * 2 * sr) \div (sr * 2)

HasNextFramePartial(off, nbytes, len) == off < len

\* while offset + n < len(audio)
HasNextFrame(off, nbytes, len) == off + nbytes < len

\* a slice bound i of a sequence of len items: negative bounds count from
\* the end, and every bound is clamped to 0..len
SliceBound(i, len) == IF i < 0 THEN Max(i + len, 0) ELSE Min(i, len)

\* audio[offset:offset + n]: the bytes [lo, hi), empty (hi = lo) when the
\* upper bound is not beyond the lower
Slice(off, nbytes, len) ==
    <<SliceBound(off, len), Max(SliceBound(off, len), SliceBound(off + nbytes, len))>>

n == FrameBytes(sample_rate, frame_duration_ms)

\* ---- vad_collector ------------------------------------------------------

\* num_padding_frames = int(padding_duration_ms / frame_duration_ms)
NumPaddingFrames(pad, ms) == TruncDiv(pad, ms)

\* the first two statements of vad_collector succeed: the division raises
\* ZeroDivisionError for frame_duration_ms = 0 and deque(maxlen=...) raises
\* ValueError for a negative maxlen
SetupOk(pad, ms) == ms # 0 /\ NumPaddingFrames(pad, ms) >= 0

DequeAppendUnbounded(rb, x, cap) == Append(rb, x)

\* ring_buffer.append(x) on a deque(maxlen=cap): the oldest entry leaves
\* when the deque is full; with cap = 0 nothing is kept
DequeAppend(rb, x, cap) ==
    IF cap = 0 THEN <<>>
    ELSE IF Len(rb) >= cap THEN Append(Tail(rb), x)
    ELSE Append(rb, x)

\* for f, s, t, d in ring_buffer: if s: voiced_frames.append((t, t + d))
RECURSIVE Scan(_)
Scan(rb) ==
    IF rb = <<>> THEN <<>>
    ELSE (IF rb[1].is_speech
          THEN <<<<rb[1].timestamp, rb[1].timestamp + rb[1].duration>>>>
          ELSE <<>>) \o Scan(Tail(rb))

StartOfWindow(rb, ts) == IF rb = <<>> THEN ts ELSE rb[1].timestamp

\* start_time = timestamp, after the frame was pushed to the window rb
TriggerStart(rb, ts) == ts

EndTimeExclusive(ts, d) == ts

\* timestamp + duration, the end of the frame at ts
EndTime(ts, d) == ts + d

StartsRunWhenWindowFull(rb, is_speech, cap) ==
    /\ is_speech
    /\ cap = 0 \/ (Len(rb) = cap /\ \A i \in 1..Len(rb) : rb[i].is_speech)

StartsRunOnBuffered(rb, is_speech, cap) == rb # <<>>

\* if is_speech: (in the not-triggered branch, rb already holds the frame)
StartsRun(rb, is_speech, cap) == is_speech

FinalSegmentsAlways(segs, trig, st, ts, d) ==
    IF st # Unbound THEN Append(segs, <<st, EndTime(ts, d)>>) ELSE segs

FinalSegmentsNone(segs, trig, st, ts, d) == segs

\* if triggered: yield (start_time, timestamp + duration)
FinalSegments(segs, trig, st, ts, d) ==
    IF trig THEN Append(segs, <<st, EndTime(ts, d)>>) ELSE segs

OracleErrorFlushes(segs, trig, st, ts, d) == FinalSegments(segs, trig, st, ts, d)

\* vad.is_speech raises inside the for loop: the exception leaves the
\* generator, so neither the rest of the loop body nor the code after the
\* loop runs and nothing more is yielded
OracleErrorSegments(segs, trig, st, ts, d) == segs

\* ---- the run --------------------------------------------------------------

\* no ffmpeg invocation built yet
NoCommand == [mode |-> "none"]

\* process_folder not started: nothing listed, nothing handled
NoFolder ==
    /\ cmd = NoCommand
    /\ files = <<>>
    /\ next_file = 1
    /\ results = <<>>
    /\ wav_left = {}

Init ==
    /\ sample_rate \in SampleRates
    /\ frame_duration_ms \in FrameDurations
    /\ padding_duration_ms \in Paddings
    /\ audio_len \in 0..MaxAudioLen
    /\ NoFolder
    /\ offset = 0
    /\ gen_timestamp = 0
    /\ frames = <<>>
    /\ decisions = <<>>
    /\ ring_buffer = <<>>
    /\ triggered = FALSE
    /\ voiced_frames = <<>>
    /\ start_time = Unbound
    /\ timestamp = Unbound
    /\ duration = Unbound
    /\ segments = <<>>
    /\ pc = "running"

\* One pass of the for loop of vad_collector: frame_generator yields the next
\* frame and advances, the oracle classifies it, the state machine steps.
\* (The generator is lazy: its two increments run when the next frame is
\* requested. Nothing reads offset or its timestamp in between, so they are
\* taken here.)  The oracle's answer is any boolean.
Step ==
    /\ pc = "running"
    /\ SetupOk(padding_duration_ms, frame_duration_ms)
    /\ HasNextFrame(offset, n, audio_len)
    /\ Len(decisions) < MaxYield
    /\ \E is_speech \in BOOLEAN :
        LET frame == Slice(offset, n, audio_len)
            ts == gen_timestamp
            d == FrameDuration(n, sample_rate)
            cap == NumPaddingFrames(padding_duration_ms, frame_duration_ms)
            rb == DequeAppend(ring_buffer,
                      [frame |-> frame, is_speech |-> is_speech,
                       timestamp |-> ts, duration |-> d], cap)
        IN  /\ frames' = Append(frames, [frame |-> frame, timestamp |-> ts, duration |-> d])
            /\ gen_timestamp' = gen_timestamp + d
            /\ offset' = offset + n
            /\ decisions' = Append(decisions, is_speech)
            /\ timestamp' = ts
            /\ duration' = d
            /\ IF ~triggered
               THEN IF StartsRun(rb, is_speech, cap)
                    THEN /\ triggered' = TRUE
                         /\ start_time' = TriggerStart(rb, ts)
                         /\ voiced_frames' = voiced_frames \o Scan(rb)
                         /\ ring_buffer' = <<>>
                         /\ UNCHANGED segments
                    ELSE /\ ring_buffer' = rb
                         /\ UNCHANGED <<triggered, start_time, voiced_frames, segments>>
               ELSE IF ~is_speech
                    THEN /\ triggered' = FALSE
                         /\ segments' = Append(segments, <<start_time, EndTime(ts, d)>>)
                         /\ UNCHANGED <<ring_buffer, start_time, voiced_frames>>
                    ELSE /\ voiced_frames' = Append(voiced_frames, <<ts, ts + d>>)
                         /\ UNCHANGED <<ring_buffer, triggered, start_time, segments>>
    /\ UNCHANGED <<sample_rate, frame_duration_ms, padding_duration_ms, audio_len, pc>>
    /\ UNCHANGED folderVars

\* The generator's loop condition fails, the for loop ends, and the code
\* after the loop emits the run still in progress.
Finish ==
    /\ pc = "running"
    /\ SetupOk(padding_duration_ms, frame_duration_ms)
    /\ ~HasNextFrame(offset, n, audio_len)
    /\ segments' = FinalSegments(segments, triggered, start_time, timestamp, duration)
    /\ pc' = "done"
    /\ UNCHANGED <<sample_rate, frame_duration_ms, padding_duration_ms, audio_len,
                   offset, gen_timestamp, frames, decisions, ring_buffer, triggered,
                   voiced_frames, start_time, timestamp, duration>>
    /\ UNCHANGED folderVars

Next == Step \/ Finish

Spec == Init /\ [][Next]_vars

\* ---- cut_video_with_ffmpeg ---------------------------------------------------

\* The filters of segments i.. of segs: for each, the video trim
\* "[0:v]trim=start=..:end=..,setpts=PTS-STARTPTS[v{i}];" and then the audio
\* trim "[0:a]atrim=start=..:end=..,asetpts=PTS-STARTPTS[a{i}];", numbered
\* from 0 as enumerate does
RECURSIVE TrimFilters(_, _)
TrimFilters(segs, i) ==
    IF i > Len(segs) THEN <<>>
    ELSE << [filter |-> "trim", input |-> "0:v", start |-> segs[i][1],
             end |-> segs[i][2], output |-> <<"v", i - 1>>],
            [filter |-> "atrim", input |-> "0:a", start |-> segs[i][1],
             end |-> segs[i][2], output |-> <<"a", i - 1>>] >>
         \o TrimFilters(segs, i + 1)

\* "[v0][v1]...concat=n=<len(segments)>:v=1:a=0[v];" and the same for audio
ConcatFilter(stream, segs) ==
    [inputs |-> [i \in 1..Len(segs) |-> <<stream, i - 1>>],
     count |-> Len(segs),
     output |-> stream]

CutCommandAlwaysFilters(segs) ==
    [mode |-> "filter_complex",
     filters |-> TrimFilters(segs, 1),
     video_concat |-> ConcatFilter("v", segs),
     audio_concat |-> ConcatFilter("a", segs)]

\* the ffmpeg invocation: a plain stream copy of the whole input when there
\* are no segments, else the -filter_complex graph
CutCommand(segs) ==
    IF segs = <<>>
    THEN [mode |-> "copy"]
    ELSE [mode |-> "filter_complex",
          filters |-> TrimFilters(segs, 1),
          video_concat |-> ConcatFilter("v", segs),
          audio_concat |-> ConcatFilter("a", segs)]

\* process_folder hands the segments of a finished run to
\* cut_video_with_ffmpeg
Cut ==
    /\ pc = "done"
    /\ cmd' = CutCommand(segments)
    /\ pc' = "cut"
    /\ UNCHANGED <<sample_rate, frame_duration_ms, padding_duration_ms, audio_len,
                   offset, gen_timestamp, frames, decisions, ring_buffer, triggered,
                   voiced_frames, start_time, timestamp, duration, segments>>
    /\ UNCHANGED <<files, next_file, results, wav_left>>

NextCut == Step \/ Finish \/ Cut

SpecCut == Init /\ [][NextCut]_vars

\* ---- process_folder ----------------------------------------------------------

\* what can happen to one video inside the try block: the step that raises,
\* or "ok" when none does
Outcomes == {"probe_failed", "extract_failed", "segment_failed", "cut_failed", "ok"}

SelectedAny(is_mp4) == TRUE

\* if filename.endswith(".mp4")
Selected(is_mp4) == is_mp4

NextAfterErrorStops(i, count) == count + 1

\* the except clause is inside the for loop: after an error the loop goes on
\* with the next name
NextAfterError(i, count) == i + 1

\* Whether the video's .wav is on disk when its handling ends. ffmpeg writes
\* it in extract_audio (a failed extraction may leave a partial file);
\* os.remove(audio_path) runs only when get_speech_segments has returned.
WavLeft(outcome, partial) ==
    CASE outcome = "probe_failed" -> FALSE
      [] outcome = "extract_failed" -> partial
      [] outcome = "segment_failed" -> TRUE
      [] outcome = "cut_failed" -> FALSE
      [] outcome = "ok" -> FALSE

\* One pass of the loop over os.listdir(folder_path).
HandleFile ==
    /\ pc = "folder"
    /\ next_file <= Len(files)
    /\ IF ~Selected(files[next_file])
       THEN /\ results' = Append(results, "ignored")
            /\ next_file' = next_file + 1
            /\ UNCHANGED wav_left
       ELSE \E outcome \in Outcomes, partial \in BOOLEAN :
                /\ results' = Append(results, outcome)
                /\ wav_left' = IF WavLeft(outcome, partial)
                               THEN wav_left \cup {next_file}
                               ELSE wav_left
                /\ next_file' = IF outcome = "ok"
                                THEN next_file + 1
                                ELSE NextAfterError(next_file, Len(files))
    /\ UNCHANGED <<cmd, files, pc>>
    /\ UNCHANGED <<sample_rate, frame_duration_ms, padding_duration_ms, audio_len,
                   offset, gen_timestamp, frames, decisions, ring_buffer, triggered,
                   voiced_frames, start_time, timestamp, duration, segments>>

\* The listing is exhausted and process_folder returns.
FolderDone ==
    /\ pc = "folder"
    /\ next_file > Len(files)
    /\ pc' = "folder_done"
    /\ UNCHANGED folderVars
    /\ UNCHANGED <<sample_rate, frame_duration_ms, padding_duration_ms, audio_len,
                   offset, gen_timestamp, frames, decisions, ring_buffer, triggered,
                   voiced_frames, start_time, timestamp, duration, segments>>

RECURSIVE Listings(_)
Listings(k) ==
    IF k = 0 THEN {<<>>}
    ELSE Listings(k - 1) \cup {Append(l, b) : l \in Listings(k - 1), b \in BOOLEAN}

InitFolder ==
    /\ files \in Listings(MaxFiles)
    /\ next_file = 1
    /\ results = <<>>
    /\ wav_left = {}
    /\ cmd = NoCommand
    /\ pc = "folder"
    /\ sample_rate = ExtractedRate
    /\ frame_duration_ms = VadFrameMs
    /\ padding_duration_ms = VadPaddingMs
    /\ audio_len = 0
    /\ offset = 0
    /\ gen_timestamp = 0
    /\ frames = <<>>
    /\ decisions = <<>>
    /\ ring_buffer = <<>>
    /\ triggered = FALSE
    /\ voiced_frames = <<>>
    /\ start_time = Unbound
    /\ timestamp = Unbound
    /\ duration = Unbound
    /\ segments = <<>>

NextFolder == HandleFile \/ FolderDone

SpecFolder == InitFolder /\ [][NextFolder]_vars

\* ---- a failing oracle ------------------------------------------------------

\* A pass of the for loop in which vad.is_speech raises: the frame has been
\* yielded and bound to the loop variables, the exception propagates to the
\* caller of vad_collector. frame_generator stays suspended at its yield, so
\* its increments do not run.
OracleFails ==
    /\ pc = "running"
    /\ SetupOk(padding_duration_ms, frame_duration_ms)
    /\ HasNextFrame(offset, n, audio_len)
    /\ Len(decisions) < MaxYield
    /\ LET frame == Slice(offset, n, audio_len)
           ts == gen_timestamp
           d == FrameDuration(n, sample_rate)
       IN  /\ frames' = Append(frames, [frame |-> frame, timestamp |-> ts, duration |-> d])
           /\ timestamp' = ts
           /\ duration' = d
           /\ segments' = OracleErrorSegments(segments, triggered, start_time, ts, d)
    /\ pc' = "aborted"
    /\ UNCHANGED <<sample_rate, frame_duration_ms, padding_duration_ms, audio_len,
                   offset, gen_timestamp, decisions, ring_buffer, triggered,
                   voiced_frames, start_time>>
    /\ UNCHANGED folderVars

NextOracle == Step \/ Finish \/ OracleFails

SpecOracle == Init /\ [][NextOracle]_vars

\* ---- malformed frame durations ---------------------------------------------

\* The first request for a segment runs vad_collector up to its loop; an
\* exception raised there (see SetupOk) ends the run before frame_generator
\* is started.
Reject ==
    /\ pc = "running"
    /\ frames = <<>>
    /\ ~SetupOk(padding_duration_ms, frame_duration_ms)
    /\ pc' = "error"
    /\ UNCHANGED <<sample_rate, frame_duration_ms, padding_duration_ms, audio_len,
                   offset, gen_timestamp, frames, decisions, ring_buffer, triggered,
                   voiced_frames, start_time, timestamp, duration, segments>>
    /\ UNCHANGED folderVars

InitMalformed ==
    /\ sample_rate \in SampleRates
    /\ frame_duration_ms \in MalformedDurations
    /\ padding_duration_ms \in Paddings
    /\ audio_len \in 0..MaxAudioLen
    /\ NoFolder
    /\ offset = 0
    /\ gen_timestamp = 0
    /\ frames = <<>>
    /\ decisions = <<>>
    /\ ring_buffer = <<>>
    /\ triggered = FALSE
    /\ voiced_frames = <<>>
    /\ start_time = Unbound
    /\ timestamp = Unbound
    /\ duration = Unbound
    /\ segments = <<>>
    /\ pc = "running"

NextMalformed == Reject \/ Step \/ Finish

SpecMalformed == InitMalformed /\ [][NextMalformed]_vars

\* ---- properties of the emitted segments and frames ----------------------

AllSpeech(ds) == \A i \in 1..Len(ds) : ds[i]

NoSpeech(ds) == \A i \in 1..Len(ds) : ~ds[i]

LastFrame == frames[Len(frames)]

\* a speech run, exactly one non-speech frame, then speech until the end
Interrupted(ds, gap) ==
    /\ gap \in 2..(Len(ds) - 1)
    /\ \A i \in 1..Len(ds) : ds[i] <=> (i # gap)

\* C1: with a positive frame duration every emitted segment is non-empty
\* (start < end) and each segment ends no later than the next one starts.
C1_DisjointOrdered ==
    n > 0 =>
        \A i \in 1..Len(segments) :
            /\ segments[i][1] < segments[i][2]
            /\ i < Len(segments) => segments[i][2] <= segments[i + 1][1]

C1_Witness == pc = "done" /\ n > 0 /\ Len(segments) >= 3

\* C2 (as claimed): a speech run interrupted by exactly one non-speech frame
\* gives exactly two segments separated by a gap one frame duration wide.
C2_GapOneFrame ==
    (pc = "done" /\ \E g \in 1..Len(decisions) : Interrupted(decisions, g)) =>
        /\ Len(segments) = 2
        /\ segments[2][1] - segments[1][2] = duration

\* C2 (amended): a speech run interrupted by exactly one non-speech frame
\* gives exactly two segments; the first runs from the first frame to the end
\* of the non-speech frame, the second from the next frame to the end of the
\* last frame, so the second starts exactly where the first ends (gap zero).
C2_TwoSegmentsAbutting ==
    pc = "done" =>
        \A g \in 1..Len(decisions) :
            Interrupted(decisions, g) =>
                /\ Len(segments) = 2
                /\ segments[1] = <<frames[1].timestamp,
                                   frames[g].timestamp + frames[g].duration>>
                /\ segments[2] = <<frames[g + 1].timestamp,
                                   LastFrame.timestamp + LastFrame.duration>>
                /\ segments[2][1] - segments[1][2] = 0

C2_Witness ==
    /\ pc = "done"
    /\ n = 1
    /\ decisions = <<TRUE, TRUE, TRUE, TRUE, TRUE, FALSE, TRUE, TRUE, TRUE, TRUE>>
    /\ Len(segments) = 2

\* C3: when every frame of a non-empty sequence is speech, nothing is emitted
\* while frames are consumed, and at termination exactly one segment is
\* emitted, from the first frame's timestamp to the end of the last frame.
C3_AllSpeechOneSegment ==
    (decisions # <<>> /\ AllSpeech(decisions)) =>
        IF pc = "done"
        THEN segments = << <<frames[1].timestamp,
                             LastFrame.timestamp + LastFrame.duration>> >>
        ELSE segments = <<>>

C3_Witness == pc = "done" /\ Len(decisions) >= 4 /\ AllSpeech(decisions)

\* C4: with no frame at all, or no frame classified as speech, no segment is
\* ever emitted and the collector is (and ends) untriggered.
C4_NoSpeechNoSegments ==
    NoSpeech(decisions) => (segments = <<>> /\ ~triggered)

C4_Witness == pc = "done" /\ Len(decisions) >= 3 /\ NoSpeech(decisions)

\* C5: a buffer of k full frames plus a partial remainder (0 < r < n) yields
\* exactly k frames, the i-th covering bytes [(i-1)*n, i*n) (counting from 1),
\* and none reaches into the remainder.
C5_ExactFrames ==
    (pc = "done" /\ n > 0 /\ audio_len % n # 0) =>
        LET k == audio_len \div n
        IN  /\ Len(frames) = k
            /\ \A i \in 1..Len(frames) :
                   /\ frames[i].frame = <<(i - 1) * n, i * n>>
                   /\ frames[i].frame[2] <= k * n

C5_Witness == pc = "done" /\ n = 2 /\ audio_len = 7 /\ Len(frames) = 3

\* C6: the frames start at byte 0 and follow each other with no gap and no
\* overlap, timestamps step by the frame duration, and what is left of the
\* buffer after the last frame is shorter than one frame.
C6_OnlyShortRemainderLost ==
    (pc = "done" /\ n > 0) =>
        /\ \A i \in 1..Len(frames) :
               /\ frames[i].frame = <<(i - 1) * n, i * n>>
               /\ frames[i].timestamp = (i - 1) * frames[i].duration
        /\ audio_len - Len(frames) * n < n

\* C7: at exhaustion of the frames one more segment, (start_time, end of the
\* last frame), is emitted exactly when the collector is still triggered; when
\* the last frame was non-speech, or no frame was ever speech, nothing is added.
C7_FinalSegmentIffTriggered ==
    [][(pc = "running" /\ pc' = "done") =>
          /\ triggered =>
                 segments' = Append(segments,
                     <<start_time, LastFrame.timestamp + LastFrame.duration>>)
          /\ ~triggered => segments' = segments
          /\ (decisions # <<>> /\ ~decisions[Len(decisions)]) => segments' = segments
          /\ NoSpeech(decisions) => segments' = <<>>]_vars

C7_Witness == pc = "done" /\ triggered /\ Len(segments) >= 2

\* frames [silence, silence, speech] followed only by speech
SilenceSilenceSpeech(ds) ==
    /\ Len(ds) >= 3
    /\ \A i \in 1..Len(ds) : ds[i] <=> (i >= 3)

\* C8: with a window of capacity 3 (padding = 3 x frame duration) and frames
\* [silence, silence, speech] followed by sustained speech, the scan on trigger
\* adds exactly one interval to voiced_frames, that of the buffered speech
\* frame, and the segment starts at the triggering frame's timestamp, not at
\* that of an earlier buffered frame.
C8_PaddingReachBack ==
    (padding_duration_ms = 3 * frame_duration_ms /\ SilenceSilenceSpeech(decisions)) =>
        /\ Len(voiced_frames) = Len(decisions) - 2
        /\ voiced_frames[1] = <<frames[3].timestamp,
                                frames[3].timestamp + frames[3].duration>>
        /\ start_time = frames[3].timestamp
        /\ n > 0 => start_time \notin {frames[1].timestamp, frames[2].timestamp}
        /\ IF pc = "done"
           THEN segments = << <<frames[3].timestamp,
                                LastFrame.timestamp + LastFrame.duration>> >>
           ELSE segments = <<>>

C8_Witness ==
    /\ pc = "done"
    /\ padding_duration_ms = 3 * frame_duration_ms
    /\ Len(decisions) >= 6
    /\ SilenceSilenceSpeech(decisions)
    /\ segments # <<>>

\* a single speech frame, at position k, with non-speech before and after
LoneSpeech(ds, k) ==
    /\ k \in 2..(Len(ds) - 1)
    /\ \A i \in 1..Len(ds) : ds[i] <=> (i = k)

\* C9 (as claimed): with a window of capacity N >= 2, a single speech frame
\* between non-speech frames does not trigger a run and yields no segment.
C9_LoneSpeechIgnored ==
    (pc = "done"
        /\ NumPaddingFrames(padding_duration_ms, frame_duration_ms) >= 2
        /\ \E k \in 1..Len(decisions) : LoneSpeech(decisions, k)) =>
        segments = <<>>

\* C9 (amended): a run is confirmed by the first speech frame seen while
\* untriggered, whatever the window capacity: the collector is triggered
\* exactly when the last frame was speech, and a single speech frame between
\* non-speech frames yields exactly one segment, from its timestamp to the end
\* of the non-speech frame after it.
C9_FirstSpeechFrameTriggers ==
    /\ decisions # <<>> => (triggered <=> decisions[Len(decisions)])
    /\ pc = "done" =>
           \A k \in 1..Len(decisions) :
               LoneSpeech(decisions, k) =>
                   segments = << <<frames[k].timestamp,
                                   frames[k + 1].timestamp + frames[k + 1].duration>> >>

C9_Witness ==
    /\ pc = "done"
    /\ NumPaddingFrames(padding_duration_ms, frame_duration_ms) >= 2
    /\ n > 0
    /\ \E k \in 1..Len(decisions) : LoneSpeech(decisions, k)
    /\ Len(segments) = 1

\* C10: frame_generator ends after finitely many frames: every pass of its
\* loop leaves strictly less of the buffer unread, so the loop condition
\* offset + n < len(audio) must eventually fail.
C10_EveryYieldAdvances ==
    [][(pc = "running" /\ pc' = "running") =>
          audio_len - offset' < audio_len - offset]_vars

\* C11: a zero or negative frame_duration_ms is rejected before any frame or
\* segment is produced: no frame is ever yielded, no segment emitted, and the
\* run never ends normally.
C11_MalformedRejected ==
    frame_duration_ms <= 0 =>
        /\ frames = <<>>
        /\ segments = <<>>
        /\ pc # "done"

\* C12: when the oracle fails on a frame the run aborts there: that frame was
\* handed to the oracle once (one more frame consumed than decisions made), no
\* decision is recorded or acted on in its place, no segment is emitted on
\* the failing pass, and afterwards no frame is consumed and no segment
\* emitted, not even that of a run in progress.
C12_OracleFailureAborts ==
    [][/\ pc' = "aborted" =>
              /\ segments' = segments
              /\ decisions' = decisions
              /\ triggered' = triggered
              /\ ring_buffer' = ring_buffer
              /\ voiced_frames' = voiced_frames
              /\ Len(frames') = Len(decisions') + 1
       /\ pc' # "aborted" => Len(frames') = Len(decisions')
       /\ pc = "aborted" => (pc' = "aborted" /\ frames' = frames /\ segments' = segments)]_vars

C12_Witness ==
    /\ pc = "aborted"
    /\ triggered
    /\ Len(segments) >= 1
    /\ Len(decisions) >= 3

\* number of maximal runs of consecutive speech decisions
SpeechRuns(ds) ==
    Cardinality({i \in 1..Len(ds) : ds[i] /\ (i = 1 \/ ~ds[i - 1])})

\* the last index of the maximal speech run that starts at i
RunEnd(ds, i) ==
    CHOOSE j \in i..Len(ds) :
        /\ \A k \in i..j : ds[k]
        /\ j = Len(ds) \/ ~ds[j + 1]

\* C13: a pass of the loop made in the Triggered state emits exactly one
\* segment, (start_time, end of this frame), and returns to Untriggered when
\* the frame is non-speech; it emits nothing and stays Triggered when the
\* frame is speech.
C13_FirstSilenceEndsRun ==
    [][(triggered /\ pc' = "running") =>
          IF decisions'[Len(decisions')]
          THEN segments' = segments /\ triggered'
          ELSE /\ segments' = Append(segments,
                      <<start_time,
                        frames'[Len(frames')].timestamp + frames'[Len(frames')].duration>>)
               /\ ~triggered']_vars

C13_Witness ==
    /\ pc = "running"
    /\ ~triggered
    /\ Len(decisions) >= 3
    /\ decisions[Len(decisions) - 2]
    /\ decisions[Len(decisions) - 1]
    /\ ~decisions[Len(decisions)]
    /\ segments # <<>>
    /\ segments[Len(segments)][2] = timestamp + duration

\* C14: at the end of a run over frames of positive length, every speech frame
\* lies inside exactly one segment, the segments are, in order, the maximal
\* speech runs, each from its first frame's timestamp to the end of the frame
\* after its last speech frame (the closing non-speech frame) or, when the run
\* reaches the last frame, to the end of that frame; so there are as many
\* segments as maximal speech runs.
C14_SegmentsAreSpeechRuns ==
    (pc = "done" /\ n > 0) =>
        LET starts == {i \in 1..Len(decisions) :
                           decisions[i] /\ (i = 1 \/ ~decisions[i - 1])}
        IN  /\ Len(segments) = SpeechRuns(decisions)
            /\ \A k \in 1..Len(decisions) :
                   decisions[k] =>
                       Cardinality({s \in 1..Len(segments) :
                           /\ segments[s][1] <= frames[k].timestamp
                           /\ frames[k].timestamp + frames[k].duration <= segments[s][2]}) = 1
            /\ \A i \in starts :
                   LET s == Cardinality({i2 \in starts : i2 <= i})
                       j == RunEnd(decisions, i)
                       last == Min(j + 1, Len(decisions))
                   IN  segments[s] = <<frames[i].timestamp,
                                       frames[last].timestamp + frames[last].duration>>

C14_Witness ==
    /\ pc = "done"
    /\ n > 0
    /\ Len(segments) >= 3
    /\ decisions[Len(decisions)]
    /\ \E k \in 1..(Len(decisions) - 1) : decisions[k] /\ decisions[k + 1]

\* A collector with no padding window and no voiced_frames: its state after
\* the first k frames fs with decisions ds.
RECURSIVE WindowlessRun(_, _, _)
WindowlessRun(fs, ds, k) ==
    IF k = 0 THEN [trig |-> FALSE, st |-> Unbound, segs |-> <<>>]
    ELSE LET p == WindowlessRun(fs, ds, k - 1)
         IN  IF ds[k] = p.trig THEN p
             ELSE IF ds[k] THEN [p EXCEPT !.trig = TRUE, !.st = fs[k].timestamp]
             ELSE [p EXCEPT !.trig = FALSE,
                            !.segs = Append(p.segs,
                                <<p.st, fs[k].timestamp + fs[k].duration>>)]

WindowlessSegments(fs, ds, finished) ==
    LET r == WindowlessRun(fs, ds, Len(ds))
    IN  IF finished /\ r.trig
        THEN Append(r.segs, <<r.st, fs[Len(ds)].timestamp + fs[Len(ds)].duration>>)
        ELSE r.segs

\* C15: the segments emitted are those of a collector that has no padding
\* window at all: they are determined by the frames and the decisions alone,
\* so they are the same for every padding_duration_ms >= 0.
C15_PaddingIrrelevant ==
    segments = WindowlessSegments(frames, decisions, pc = "done")

C15_Witness ==
    /\ pc = "done"
    /\ NumPaddingFrames(padding_duration_ms, frame_duration_ms) >= 2
    /\ Len(segments) >= 2
    /\ Len(decisions) >= 3
    /\ ~decisions[1]
    /\ ~decisions[2]
    /\ decisions[3]

\* number of non-speech decisions at the end of ds
RECURSIVE TrailingSilence(_)
TrailingSilence(ds) ==
    IF ds = <<>> \/ ds[Len(ds)] THEN 0
    ELSE 1 + TrailingSilence(SubSeq(ds, 1, Len(ds) - 1))

\* C16: the window never holds more than N = floor(padding / frame duration)
\* entries; it is empty while triggered (cleared on trigger, not written until
\* the run ends, so empty when the collector returns to untriggered); while
\* untriggered it holds, oldest first, the most recent N of the frames seen
\* since the last run ended (the frame that ended the run is not among them).
C16_WindowBounded ==
    LET cap == padding_duration_ms \div frame_duration_ms
        len == Len(decisions)
        quiet == TrailingSilence(decisions)
        pushed == IF quiet = len THEN quiet ELSE Max(quiet - 1, 0)
        kept == Min(cap, pushed)
    IN  /\ Len(ring_buffer) <= cap
        /\ triggered => ring_buffer = <<>>
        /\ Len(ring_buffer) = kept
        /\ \A i \in 1..Len(ring_buffer) :
               ring_buffer[i] = [frame |-> frames[len - kept + i].frame,
                                 is_speech |-> decisions[len - kept + i],
                                 timestamp |-> frames[len - kept + i].timestamp,
                                 duration |-> frames[len - kept + i].duration]

C16_Witness ==
    /\ pc = "running"
    /\ segments # <<>>
    /\ NumPaddingFrames(padding_duration_ms, frame_duration_ms) >= 2
    /\ Len(ring_buffer) = NumPaddingFrames(padding_duration_ms, frame_duration_ms)
    /\ TrailingSilence(decisions) >= Len(ring_buffer) + 2
    /\ n > 0

\* C19: with no segments the whole video is exported by a plain copy, with no
\* trim; otherwise there is exactly one video trim and one audio trim per
\* segment, in segment order, each with that segment's (start, end), and each
\* stream's concat takes exactly len(segments) pieces, the trims' outputs.
C19_CutCommand ==
    pc = "cut" =>
        IF segments = <<>>
        THEN cmd = [mode |-> "copy"]
        ELSE /\ cmd.mode = "filter_complex"
             /\ Len(cmd.filters) = 2 * Len(segments)
             /\ \A i \in 1..Len(segments) :
                    /\ cmd.filters[2 * i - 1].filter = "trim"
                    /\ cmd.filters[2 * i].filter = "atrim"
                    /\ \A f \in {cmd.filters[2 * i - 1], cmd.filters[2 * i]} :
                           f.start = segments[i][1] /\ f.end = segments[i][2]
                    /\ cmd.video_concat.inputs[i] = cmd.filters[2 * i - 1].output
                    /\ cmd.audio_concat.inputs[i] = cmd.filters[2 * i].output
             /\ Cardinality({cmd.filters[k].output : k \in 1..Len(cmd.filters)})
                    = 2 * Len(segments)
             /\ Len(cmd.video_concat.inputs) = Len(segments)
             /\ Len(cmd.audio_concat.inputs) = Len(segments)
             /\ cmd.video_concat.count = Len(segments)
             /\ cmd.audio_concat.count = Len(segments)

C19_Witness == pc = "cut" /\ Len(segments) >= 3 /\ cmd.mode = "filter_complex"

C19_WitnessCopy == pc = "cut" /\ frames # <<>> /\ cmd.mode = "copy"

\* C17: when process_folder returns, every name of the listing has been
\* handled, in order: each name ending in .mp4 was attempted (whatever became
\* of the ones before it), and no other name was processed.
C17_FailuresIsolated ==
    /\ Len(results) = next_file - 1
    /\ pc = "folder_done" =>
           /\ Len(results) = Len(files)
           /\ \A i \in 1..Len(files) :
                  IF files[i] THEN results[i] \in Outcomes ELSE results[i] = "ignored"

C17_Witness ==
    /\ pc = "folder_done"
    /\ Len(files) = 3
    /\ results[1] \in {"probe_failed", "extract_failed", "segment_failed", "cut_failed"}
    /\ results[2] = "ignored"
    /\ results[3] = "ok"

\* C18: once a video has been handled, if its audio extraction succeeded its
\* .wav is no longer on disk, whether the later steps succeeded or failed.
C18_WavRemoved ==
    \A i \in 1..Len(results) :
        results[i] \in {"segment_failed", "cut_failed", "ok"} => i \notin wav_left

====
